---- MODULE Spec2Model ----
(***************************************************************************)
(* A model of the Collection class of firebary (collection.ts): a thin     *)
(* layer over a Firestore collection.  The store is a finite map from      *)
(* document id to document data; every store round trip of a method is     *)
(* one step, so that two calls may interleave exactly where the code       *)
(* awaits.                                                                 *)
(***************************************************************************)
EXTENDS Integers, Sequences, FiniteSets, TLC

VARIABLES
    phase,        \* "new" before the constructor ran, then "ready" or "failed"
    types,        \* this.types
    isSingleType, \* this.isSingleType
    docs,         \* the collection in the store: document id -> data
    autoCount,    \* how many ids the store has generated so far
    pend,         \* per caller: the addSingle call suspended between get() and set()
    ret,          \* outcome of the call that returned last
    qpc,          \* getCollection: position of the running call
    qopts,        \* getCollection: the options of the running call
    qref,         \* getCollection: the query assembled by the running call
    trips,        \* getCollection: store round trips issued by the running call
    call          \* the call the client is about to make, if it makes one

vars == <<phase, types, isSingleType, docs, autoCount, pend, ret, qpc, qopts, qref, trips, call>>

-----------------------------------------------------------------------------
(* Bounds of the model.                                                    *)

MaxTypes == 2      \* longest list of types handed to the constructor
MaxUpdates == 2    \* longest list handed to updateMany
MaxAuto == 2       \* ids the store generates before the model stops creating
MaxHead == 2       \* records of an addMany batch that are chosen freely

-----------------------------------------------------------------------------
(* Strings that are compared up to case are sequences of characters.       *)

UpperToLower ==
    [c \in {"A","B","C","D","E","F","G","H","I","J","K","L","M",
            "N","O","P","Q","R","S","T","U","V","W","X","Y","Z"} |->
        CASE c = "A" -> "a" [] c = "B" -> "b" [] c = "C" -> "c" [] c = "D" -> "d"
          [] c = "E" -> "e" [] c = "F" -> "f" [] c = "G" -> "g" [] c = "H" -> "h"
          [] c = "I" -> "i" [] c = "J" -> "j" [] c = "K" -> "k" [] c = "L" -> "l"
          [] c = "M" -> "m" [] c = "N" -> "n" [] c = "O" -> "o" [] c = "P" -> "p"
          [] c = "Q" -> "q" [] c = "R" -> "r" [] c = "S" -> "s" [] c = "T" -> "t"
          [] c = "U" -> "u" [] c = "V" -> "v" [] c = "W" -> "w" [] c = "X" -> "x"
          [] c = "Y" -> "y" [] c = "Z" -> "z"]

\* String.prototype.toLocaleLowerCase
toLocaleLowerCase(s) ==
    [i \in 1..Len(s) |-> IF s[i] \in DOMAIN UpperToLower THEN UpperToLower[s[i]] ELSE s[i]]

-----------------------------------------------------------------------------
(* Objects.  An object has own properties and properties it inherits from  *)
(* its prototype chain; both are maps from property name to value.         *)

NoProps == [f \in {} |-> ""]

Obj(own, proto) == [own |-> own, proto |-> proto]

\* Object.getOwnPropertyNames(o)
getOwnPropertyNames(o) == DOMAIN o.own

\* prop in o
In(prop, o) == prop \in DOMAIN o.own \/ prop \in DOMAIN o.proto

\* o[prop], for a property that is in o
Get(o, prop) == IF prop \in DOMAIN o.own THEN o.own[prop] ELSE o.proto[prop]

\* A map restricted to some of its keys.
Restrict(m, keys) == [f \in keys |-> m[f]]

\* A type (a class): its name, the own properties of `new t()`, and the
\* properties `new t()` inherits.
Type(name, fields, inherited) == [name |-> name, fields |-> fields, inherited |-> inherited]

Foo   == Type(<<"F","o","o">>, {"name", "age", "type"}, {})
Bar   == Type(<<"B","a","r">>, {"name"}, {"type"})
Plain == Type(<<"P","l","a","i","n">>, {"name", "age"}, {})

TypePool == {Foo, Bar, Plain}

\* The lists of at most n elements of S.
SeqUpTo(S, n) == UNION {[1..k -> S] : k \in 0..n}

TypeLists == SeqUpTo(TypePool, MaxTypes)

\* prop in new t.prototype.constructor()
InInstance(prop, t) == prop \in t.fields \/ prop \in t.inherited

-----------------------------------------------------------------------------
(* Inputs.                                                                 *)

Ids == {"a", "b"}          \* document ids a caller names
NoId == "<none>"           \* a record without an id property
Callers == {"c1", "c2"}

foo == <<"f","o","o">>
Tags == {foo, <<"F","o","o">>, <<"b","a","r">>, <<"q">>}

\* The maps with at most the key f, its value in vs.
Opt(f, vs) == {NoProps} \cup {[k \in {f} |-> v] : v \in vs}

OwnMaps ==
    {n @@ a @@ b @@ t : n \in Opt("name", {"x", "y"}), a \in Opt("age", {5}),
                        b \in Opt("bogus", {"y"}), t \in Opt("type", Tags)}

Protos == {NoProps, [k \in {"age"} |-> 7] @@ [k \in {"type"} |-> foo]}

\* The partial objects handed to updateSingle and updateMany.
Payloads == {Obj(own, proto) : own \in OwnMaps, proto \in Protos}

\* The record bodies handed to addSingle and addMany (the record without its id).
DataPool == {[k \in {"name"} |-> "x"], [k \in {"name"} |-> "y"] @@ [k \in {"age"} |-> 5]}

\* The ids a record may carry: a document id, the empty string, or none.
RecIds == Ids \cup {"", NoId}

Records == [id : RecIds, data : DataPool]

-----------------------------------------------------------------------------
(* Outcomes.  A call that throws leaves the name of its error in ret.res.  *)

\* op: the method; arg: what it was called with; res: "ok" or the error;
\* io: the store round trips the call issued, in order; value: what it
\* returned.
Outcome(op, arg, res, io, value) ==
    [op |-> op, arg |-> arg, res |-> res, io |-> io, value |-> value]

None == Outcome("none", NoProps, "none", <<>>, NoProps)

\* The outcome of a call that threw e after the round trips io.
Thrown(op, arg, e, io) == Outcome(op, arg, e, io, NoProps)

\* !id
Falsy(id) == id = NoId \/ id = ""

-----------------------------------------------------------------------------
(* The store.                                                              *)

\* The snapshot that stands for "none".
NoSnapshot == [exists |-> FALSE, id |-> "", data |-> NoProps]

\* docRef.get(): the snapshot of a document
Snapshot(id) ==
    IF id \in DOMAIN docs THEN [exists |-> TRUE, id |-> id, data |-> docs[id]]
                          ELSE [exists |-> FALSE, id |-> id, data |-> NoProps]

\* docRef.set(data) on the collection d
Set(d, id, data) == (id :> data) @@ d

\* docRef.update(data) on the collection d: the fields of data replace the
\* document's, the others stay.
Update(d, id, data) ==
    [d EXCEPT ![id] = [f \in DOMAIN d[id] \cup DOMAIN data |->
                          IF f \in DOMAIN data THEN data[f] ELSE d[id][f]]]

\* docRef.delete() on the collection d
Delete(d, id) == [x \in DOMAIN d \ {id} |-> d[x]]

\* The store refuses an update of a document that does not exist, and the
\* client refuses an update that names no field.
UpdateRejected(d, id, data) == id \notin DOMAIN d \/ DOMAIN data = {}

\* The id the store generates next.
AutoId(n) == "g" \o ToString(n)

-----------------------------------------------------------------------------
(* constructor, validate                                                   *)

\* validate(): the error it throws, or "ok"
validate(ts, single) ==
    IF Len(ts) < 1 THEN "NoTypes"
    ELSE IF ~single /\ \E i \in 1..Len(ts) : ~InInstance("type", ts[i]) THEN "InvalidTypes"
    ELSE "ok"

\* The mode computed wrongly: a list of two types counts as single too.
SingleOfLoose(ts) == Len(ts) <= 2

\* The mode as the constructor computes it.
SingleOf(ts) == Len(ts) = 1

Construct(ts) ==
    /\ phase = "new"
    /\ types' = ts
    /\ isSingleType' = SingleOf(ts)
    /\ phase' = IF validate(ts, SingleOf(ts)) = "ok" THEN "ready" ELSE "failed"
    /\ ret' = Outcome("constructor", ts, validate(ts, SingleOf(ts)), <<>>, NoProps)
    /\ UNCHANGED <<docs, autoCount, pend, qpc, qopts, qref, trips>>

-----------------------------------------------------------------------------
(* assembleUpdateObject                                                    *)

\* The comparison with the case of both sides folded.
NameMatchesAnyCase(t, partialObject) ==
    toLocaleLowerCase(t.name) = toLocaleLowerCase(Get(partialObject, "type"))

\* The comparison of a type's name with the partial object's `type`.
NameMatches(t, partialObject) == toLocaleLowerCase(t.name) = Get(partialObject, "type")

\* this.types.find(...): the index of the first type that matches, 0 if none
FindType(partialObject) ==
    LET hits == {i \in 1..Len(types) :
                    In("type", partialObject)
                    /\ NameMatches(types[i], partialObject)}
    IN  IF hits = {} THEN 0 ELSE CHOOSE i \in hits : \A j \in hits : i <= j

\* updateType, as an index into this.types (0: undefined)
UpdateType(partialObject) == IF isSingleType THEN 1 ELSE FindType(partialObject)

\* The test that keeps a property, `type` not left out.
KeepsType(prop, saveObjectProps, partialObject) ==
    prop \in saveObjectProps /\ In(prop, partialObject)

\* The test that keeps a property of the partial object.
Keeps(prop, saveObjectProps, partialObject) ==
    prop # "type" /\ prop \in saveObjectProps /\ In(prop, partialObject)

assembleUpdateObject(partialObject) ==
    LET partialObjectProps == getOwnPropertyNames(partialObject)
        updateType == UpdateType(partialObject)
    IN  IF updateType = 0 THEN [ok |-> FALSE, obj |-> NoProps]
        ELSE LET saveObjectProps == types[updateType].fields
             IN  [ok |-> TRUE,
                  obj |-> [prop \in {q \in partialObjectProps :
                                        Keeps(q, saveObjectProps, partialObject)} |->
                              partialObject.own[prop]]]

-----------------------------------------------------------------------------
(* addSingle                                                               *)

Idle == [object |-> [id |-> NoId, data |-> NoProps], busy |-> FALSE]

\* A check that lets every call through.
CheckPassesAlways(snap) == TRUE

\* Whether the existence check lets the call go on to its write.
CheckPasses(snap) == ~snap.exists

\* addSingle(object, true) up to the answer of docRef.get().  A call that
\* passes the check is suspended in pend[c] until its set() is carried out.
AddSingleGet(c, object) ==
    /\ phase = "ready"
    /\ ~pend[c].busy
    /\ IF Falsy(object.id)
       THEN /\ ret' = Thrown("addSingle", [object |-> object, hasID |-> TRUE], "IdRequired", <<>>)
            /\ pend' = pend
       ELSE IF ~CheckPasses(Snapshot(object.id))
       THEN /\ ret' = Thrown("addSingle", [object |-> object, hasID |-> TRUE], "Conflict", <<"get">>)
            /\ pend' = pend
       ELSE /\ pend' = [pend EXCEPT ![c] = [object |-> object, busy |-> TRUE]]
            /\ ret' = ret
    /\ UNCHANGED <<phase, types, isSingleType, docs, autoCount, qpc, qopts, qref, trips>>

\* A set() that creates the document only if there is none.
SetIfAbsent(d, object) == IF object.id \in DOMAIN d THEN d ELSE Set(d, object.id, object.data)

\* What docRef.set(saveObject) of a suspended call does to the collection.
SetOf(d, object) == Set(d, object.id, object.data)

\* addSingle(object, true) from docRef.set(saveObject) to its return.
AddSingleSet(c) ==
    /\ phase = "ready"
    /\ pend[c].busy
    /\ docs' = SetOf(docs, pend[c].object)
    /\ ret' = Outcome("addSingle", [object |-> pend[c].object, hasID |-> TRUE], "ok",
                      <<"get", "set">>, pend[c].object)
    /\ pend' = [pend EXCEPT ![c] = Idle]
    /\ UNCHANGED <<phase, types, isSingleType, autoCount, qpc, qopts, qref, trips>>

\* addSingle(object, false): the store generates the document's id; the
\* object returned keeps its own id if it has one.
AddSingleAdd(object) ==
    /\ phase = "ready"
    /\ autoCount < MaxAuto
    /\ autoCount' = autoCount + 1
    /\ docs' = Set(docs, AutoId(autoCount + 1), object.data)
    /\ ret' = Outcome("addSingle", [object |-> object, hasID |-> FALSE], "ok", <<"add">>,
                      [object EXCEPT !.id = IF Falsy(object.id) THEN AutoId(autoCount + 1)
                                            ELSE object.id])
    /\ UNCHANGED <<phase, types, isSingleType, pend, qpc, qopts, qref, trips>>

-----------------------------------------------------------------------------
(* addMany                                                                 *)

MaxBatch == 500

\* The ceiling off by one.
TooLargeOffByOne(n) == n >= MaxBatch

\* objects.length > 500
TooLarge(n) == n > MaxBatch

\* { ...obj }: the record's body with its id property, if it has one
Spread(obj) == IF obj.id = NoId THEN obj.data ELSE obj.data @@ ("id" :> obj.id)

\* The array handed to addMany is kept as runs: objects[i].object repeated
\* objects[i].times times.  Its length:
RECURSIVE Length(_, _)
Length(objects, i) ==
    IF i > Len(objects) THEN 0 ELSE objects[i].times + Length(objects, i + 1)

\* How many of the objects get a generated id.
RECURSIVE Generated(_, _)
Generated(objects, i) ==
    IF i > Len(objects) THEN 0
    ELSE (IF Falsy(objects[i].object.id) THEN objects[i].times ELSE 0)
         + Generated(objects, i + 1)

\* objects.forEach(...) and writer.close(): the collection after one set()
\* per object, in order, the store having generated n ids before.  The
\* objects of a run that carries an id all set the same document to the same
\* data, which leaves what the first of them leaves.
RECURSIVE WriteAll(_, _, _, _, _)
WriteAll(d, n, objects, i, done) ==
    IF i > Len(objects) THEN d
    ELSE IF done >= objects[i].times THEN WriteAll(d, n, objects, i + 1, 0)
    ELSE IF Falsy(objects[i].object.id)
    THEN WriteAll(Set(d, AutoId(n + 1), Spread(objects[i].object)), n + 1, objects, i, done + 1)
    ELSE WriteAll(Set(d, objects[i].object.id, Spread(objects[i].object)), n, objects, i + 1, 0)

addMany(objects) ==
    LET length == Length(objects, 1)
    IN  /\ phase = "ready"
        /\ IF TooLarge(length)
           THEN /\ ret' = Thrown("addMany", objects, "BatchTooLarge", <<>>)
                /\ UNCHANGED <<docs, autoCount>>
           ELSE /\ autoCount + Generated(objects, 1) <= MaxAuto
                /\ docs' = WriteAll(docs, autoCount, objects, 1, 0)
                /\ autoCount' = autoCount + Generated(objects, 1)
                /\ ret' = Outcome("addMany", objects, "ok", <<"bulkWrite">>,
                                  [enqueued |-> length])
        /\ UNCHANGED <<phase, types, isSingleType, pend, qpc, qopts, qref, trips>>

\* The batches: a few records chosen freely, then the same record repeated
\* up to the length wanted.
Filler == [id |-> "a", data |-> [k \in {"name"} |-> "x"]]

BatchSizes == {0, 1, MaxBatch - 1, MaxBatch, MaxBatch + 1}

Batch(head, n) ==
    [i \in 1..Len(head) |-> [object |-> head[i], times |-> 1]]
    \o (IF n > Len(head) THEN <<[object |-> Filler, times |-> n - Len(head)]>> ELSE <<>>)

-----------------------------------------------------------------------------
(* updateSingle, updateMany                                                *)

updateSingle(id, partialObject) ==
    LET saveObject == assembleUpdateObject(partialObject)
        arg == [id |-> id, partialObject |-> partialObject]
    IN  /\ phase = "ready"
        /\ IF ~saveObject.ok
           THEN /\ ret' = Thrown("updateSingle", arg, "ShapeResolution", <<>>)
                /\ docs' = docs
           ELSE IF DOMAIN saveObject.obj = {}
           THEN /\ ret' = Thrown("updateSingle", arg, "EmptyUpdate", <<>>)
                /\ docs' = docs
           ELSE IF UpdateRejected(docs, id, saveObject.obj)
           THEN /\ ret' = Thrown("updateSingle", arg, "NotFound", <<"update">>)
                /\ docs' = docs
           ELSE /\ docs' = Update(docs, id, saveObject.obj)
                /\ ret' = Outcome("updateSingle", arg, "ok", <<"update">>, saveObject.obj)
        /\ UNCHANGED <<phase, types, isSingleType, autoCount, pend, qpc, qopts, qref, trips>>

\* The collection after the updates saveObjects[i..] in order.
RECURSIVE ApplyUpdates(_, _, _)
ApplyUpdates(d, saveObjects, i) ==
    IF i > Len(saveObjects) THEN d
    ELSE ApplyUpdates(Update(d, saveObjects[i].id, saveObjects[i].data), saveObjects, i + 1)

\* The updates applied one by one, stopping at the first the store refuses.
RECURSIVE ApplyUntilRejected(_, _, _)
ApplyUntilRejected(d, saveObjects, i) ==
    IF i > Len(saveObjects) \/ saveObjects[i].id \notin DOMAIN d THEN d
    ELSE ApplyUntilRejected(Update(d, saveObjects[i].id, saveObjects[i].data),
                            saveObjects, i + 1)

\* A commit that is no unit: the updates up to the first one refused stay.
CommitUntilRejected(d, saveObjects) == ApplyUntilRejected(d, saveObjects, 1)

\* batch.commit(): the collection it leaves.  The store applies the batch
\* as one unit: every update, or none if it refuses one of them.
Commit(d, saveObjects) ==
    IF \E i \in 1..Len(saveObjects) : saveObjects[i].id \notin DOMAIN d
    THEN d
    ELSE ApplyUpdates(d, saveObjects, 1)

updateMany(partialObjects) ==
    LET projected  == [i \in 1..Len(partialObjects) |->
                         assembleUpdateObject(partialObjects[i].data)]
        saveObjects == [i \in 1..Len(partialObjects) |->
                         [id |-> partialObjects[i].id, data |-> projected[i].obj]]
    IN  /\ phase = "ready"
        /\ IF \E i \in 1..Len(partialObjects) : ~projected[i].ok
           THEN /\ ret' = Thrown("updateMany", partialObjects, "ShapeResolution", <<>>)
                /\ docs' = docs
           ELSE IF \E i \in 1..Len(saveObjects) : DOMAIN saveObjects[i].data = {}
           THEN /\ ret' = Thrown("updateMany", partialObjects, "EmptyUpdate", <<>>)
                /\ docs' = docs
           ELSE IF \E i \in 1..Len(saveObjects) : saveObjects[i].id \notin DOMAIN docs
           THEN /\ ret' = Thrown("updateMany", partialObjects, "NotFound", <<"commit">>)
                /\ docs' = Commit(docs, saveObjects)
           ELSE /\ docs' = Commit(docs, saveObjects)
                /\ ret' = Outcome("updateMany", partialObjects, "ok", <<"commit">>, saveObjects)
        /\ UNCHANGED <<phase, types, isSingleType, autoCount, pend, qpc, qopts, qref, trips>>

-----------------------------------------------------------------------------
(* deleteSingle, getSingle                                                 *)

deleteSingle(id) ==
    /\ phase = "ready"
    /\ docs' = Delete(docs, id)
    /\ ret' = Outcome("deleteSingle", id, "ok", <<"delete">>, NoProps)
    /\ UNCHANGED <<phase, types, isSingleType, autoCount, pend, qpc, qopts, qref, trips>>

\* getSingle returns snapshot.data(): undefined for a document that does
\* not exist.
getSingle(id) ==
    /\ phase = "ready"
    /\ ret' = Outcome("getSingle", id, "ok", <<"get">>,
                      [defined |-> Snapshot(id).exists, data |-> Snapshot(id).data])
    /\ UNCHANGED <<phase, types, isSingleType, docs, autoCount, pend, qpc, qopts, qref, trips>>

-----------------------------------------------------------------------------
(* QueryOptions                                                            *)

\* startAfter: null, a document id, or the value of a field
Null == [kind |-> "null", id |-> "", v |-> 0]
AtId(id) == [kind |-> "id", id |-> id, v |-> 0]
AtValue(v) == [kind |-> "value", id |-> "", v |-> v]

\* The truth value JavaScript gives a startAfter.
Truthy(startAfter) ==
    \/ startAfter.kind = "id" /\ startAfter.id # ""
    \/ startAfter.kind = "value" /\ startAfter.v # 0

\* An option that is not given has set = FALSE.
NoPaging == [set |-> FALSE, startAfter |-> Null, limit |-> 0]
Paging(startAfter, limit) == [set |-> TRUE, startAfter |-> startAfter, limit |-> limit]

NoWhere == [set |-> FALSE, whereClauses |-> <<>>, operator |-> "unset", pagingOptions |-> NoPaging]
Where(clauses, operator, paging) ==
    [set |-> TRUE, whereClauses |-> clauses, operator |-> operator, pagingOptions |-> paging]

NoOrder == [set |-> FALSE, field |-> "", direction |-> "asc", pagingOptions |-> NoPaging]
Order(field, direction, paging) ==
    [set |-> TRUE, field |-> field, direction |-> direction, pagingOptions |-> paging]

\* given = FALSE: the caller passed no options value at all (null).
NoOptions == [given |-> FALSE, whereOptions |-> NoWhere, orderOptions |-> NoOrder,
              pagingOptions |-> NoPaging]
Options(w, o, p) == [given |-> TRUE, whereOptions |-> w, orderOptions |-> o, pagingOptions |-> p]

\* STANDARD
STANDARD == Options(NoWhere, NoOrder, Paging(Null, 10))

-----------------------------------------------------------------------------
(* The query a call assembles, and what the store answers to it.           *)

DocumentId == "__name__"

\* The collection reference: a query without constraints.
CollectionRef ==
    [filters |-> <<>>, combine |-> "and", order |-> <<>>,
     cursor |-> [kind |-> "none", snap |-> NoSnapshot, v |-> Null], limit |-> -1]

\* The place of a document id in the store's order of ids.
Rank(id) ==
    CASE id = "a" -> 1 [] id = "b" -> 2 [] id = "c" -> 3 [] id = "zz" -> 100
      [] OTHER -> 10 + (CHOOSE n \in 1..(MaxAuto + 1) : AutoId(n) = id)

Holds(clause, data) ==
    /\ clause.field \in DOMAIN data
    /\ CASE clause.operation = "==" -> data[clause.field] = clause.value
         [] clause.operation = ">=" -> data[clause.field] >= clause.value
         [] clause.operation = "<"  -> data[clause.field] < clause.value

Matches(q, data) ==
    IF q.combine = "or" /\ q.filters # <<>>
    THEN \E i \in 1..Len(q.filters) : Holds(q.filters[i], data)
    ELSE \A i \in 1..Len(q.filters) : Holds(q.filters[i], data)

\* The order the store sorts by: the orderBy() of the query or else the
\* fields compared by an inequality, and then the document id.
SortOrder(q) ==
    LET ineq == SelectSeq(q.filters, LAMBDA c : c.operation # "==")
        implicit == IF ineq = <<>> THEN <<>>
                    ELSE <<[field |-> ineq[1].field, direction |-> "asc"]>>
        fields == IF q.order # <<>> THEN q.order ELSE implicit
        last == IF fields = <<>> THEN "asc" ELSE fields[Len(fields)].direction
    IN  IF fields # <<>> /\ fields[Len(fields)].field = DocumentId THEN fields
        ELSE fields \o <<[field |-> DocumentId, direction |-> last]>>

\* A document has a place in the order if it has every field sorted by.
Sortable(order, data) ==
    \A i \in 1..Len(order) : order[i].field = DocumentId \/ order[i].field \in DOMAIN data

SortKey(order, id, data) ==
    [i \in 1..Len(order) |-> IF order[i].field = DocumentId THEN Rank(id)
                             ELSE data[order[i].field]]

\* Whether key k1 comes strictly before k2, comparing from position i on
\* the positions both have.
RECURSIVE Before(_, _, _, _)
Before(order, k1, k2, i) ==
    IF i > Len(k1) \/ i > Len(k2) THEN FALSE
    ELSE IF k1[i] = k2[i] THEN Before(order, k1, k2, i + 1)
    ELSE IF order[i].direction = "asc" THEN k1[i] < k2[i] ELSE k1[i] > k2[i]

\* The keys the cursor of q stands for.
CursorKey(q) ==
    CASE q.cursor.kind = "snapshot" -> SortKey(SortOrder(q), q.cursor.snap.id, q.cursor.snap.data)
      [] q.cursor.v.kind = "id" -> <<Rank(q.cursor.v.id)>>
      [] OTHER -> <<q.cursor.v.v>>

RECURSIVE Sorted(_, _)
Sorted(order, S) ==
    IF S = {} THEN <<>>
    ELSE LET m == CHOOSE x \in S : \A y \in S \ {x} : Before(order, x.key, y.key, 1)
         IN  <<m>> \o Sorted(order, S \ {m})

\* (await ref.get()).docs
QueryGet(q) ==
    LET order == SortOrder(q)
        hits == {[id |-> id, key |-> SortKey(order, id, docs[id])] :
                    id \in {x \in DOMAIN docs : Matches(q, docs[x]) /\ Sortable(order, docs[x])}}
        after == IF q.cursor.kind = "none" THEN hits
                 ELSE {h \in hits : Before(order, CursorKey(q), h.key, 1)}
        all == Sorted(order, after)
    IN  IF q.limit < 0 \/ Len(all) <= q.limit THEN all ELSE SubSeq(all, 1, q.limit)

-----------------------------------------------------------------------------
(* assembleQuery, getCollectionFromDB, getCollection                       *)

\* The branches without the test that refuses where and order together.
BranchUnguarded(options) ==
    IF options.given /\ options.whereOptions.set THEN "where"
    ELSE IF options.given /\ options.orderOptions.set THEN "order"
    ELSE IF ~options.given THEN "null"
    ELSE IF options.pagingOptions.set THEN "paging"
    ELSE "default"

\* The branch of assembleQuery the options take: "both" and "null" throw.
Branch(options) ==
    IF options.given /\ options.whereOptions.set /\ options.orderOptions.set THEN "both"
    ELSE IF options.given /\ options.whereOptions.set THEN "where"
    ELSE IF options.given /\ options.orderOptions.set THEN "order"
    ELSE IF ~options.given THEN "null"
    ELSE IF options.pagingOptions.set THEN "paging"
    ELSE "default"

\* The pagingOptions the branch reads.
PagingOf(options) ==
    CASE Branch(options) = "where" -> options.whereOptions.pagingOptions
      [] Branch(options) = "order" -> options.orderOptions.pagingOptions
      [] OTHER -> options.pagingOptions

\* Cursor resolution in the paging branch as well as in the where branch.
ResolvesPagingToo(options) ==
    /\ Branch(options) \in {"where", "paging"}
    /\ PagingOf(options).set
    /\ Truthy(PagingOf(options).startAfter)

\* Whether the branch reads the snapshot of startAfter before it goes on.
Resolves(options) ==
    /\ Branch(options) = "where"
    /\ PagingOf(options).set
    /\ Truthy(PagingOf(options).startAfter)

\* The limit of the branch without options.
DefaultLimit == 10

\* The query of the branch; last is the snapshot resolved for the where
\* branch, if resolved.
Assemble(options, resolved, last) ==
    LET p == PagingOf(options)
        noCursor == CollectionRef.cursor
        byValue == IF Truthy(p.startAfter)
                   THEN [kind |-> "values", snap |-> noCursor.snap, v |-> p.startAfter]
                   ELSE noCursor
    IN  CASE Branch(options) = "where" ->
               [filters |-> options.whereOptions.whereClauses,
                combine |-> IF options.whereOptions.operator = "or" THEN "or" ELSE "and",
                order   |-> <<>>,
                cursor  |-> IF resolved THEN [kind |-> "snapshot", snap |-> last, v |-> Null]
                            ELSE noCursor,
                limit   |-> p.limit]
          [] Branch(options) = "order" ->
               [CollectionRef EXCEPT
                  !.order = <<[field |-> options.orderOptions.field,
                               direction |-> options.orderOptions.direction]>>,
                  !.cursor = byValue, !.limit = p.limit]
          [] Branch(options) = "paging" ->
               [CollectionRef EXCEPT
                  !.order = <<[field |-> DocumentId, direction |-> "asc"]>>,
                  !.cursor = byValue, !.limit = p.limit]
          [] OTHER ->
               [CollectionRef EXCEPT
                  !.order = <<[field |-> DocumentId, direction |-> "asc"]>>,
                  !.limit = DefaultLimit]

\* ref.startAfter(last) throws for a snapshot without a field sorted by.
CursorRefused(q) ==
    q.cursor.kind = "snapshot" /\ ~Sortable(SortOrder(q), q.cursor.snap.data)

\* getCollection(options) up to the first round trip of assembleQuery, or
\* to the error it throws before any.
getCollection(options) ==
    /\ phase = "ready"
    /\ qpc = "idle"
    /\ IF Branch(options) = "both"
       THEN /\ ret' = Thrown("getCollection", options, "WhereAndOrder", <<>>)
            /\ UNCHANGED <<qpc, qopts, qref, trips>>
       ELSE IF Branch(options) \in {"where", "order"} /\ ~PagingOf(options).set
       THEN /\ ret' = Thrown("getCollection", options, "PagingRequired", <<>>)
            /\ UNCHANGED <<qpc, qopts, qref, trips>>
       ELSE IF Branch(options) = "null"
       THEN /\ ret' = Thrown("getCollection", options, "TypeError", <<>>)
            /\ UNCHANGED <<qpc, qopts, qref, trips>>
       ELSE /\ qopts' = options
            /\ trips' = <<>>
            /\ qpc' = IF Resolves(options) THEN "resolving" ELSE "fetching"
            /\ qref' = IF Resolves(options) THEN CollectionRef
                       ELSE Assemble(options, FALSE, NoSnapshot)
            /\ ret' = ret
    /\ UNCHANGED <<phase, types, isSingleType, docs, autoCount, pend>>

\* getDocumentSnapshot(collectionName, startAfter) answers; the rest of
\* assembleQuery runs.
ResolveCursor ==
    LET last == Snapshot(PagingOf(qopts).startAfter.id)
        q == Assemble(qopts, TRUE, last)
    IN  /\ qpc = "resolving"
        /\ IF CursorRefused(q)
           THEN /\ ret' = Thrown("getCollection", qopts, "CursorRefused", trips \o <<"get">>)
                /\ qpc' = "idle"
                /\ qopts' = NoOptions
                /\ qref' = CollectionRef
                /\ trips' = <<>>
           ELSE /\ qref' = q
                /\ trips' = trips \o <<"get">>
                /\ qpc' = "fetching"
                /\ UNCHANGED <<ret, qopts>>
        /\ UNCHANGED <<phase, types, isSingleType, docs, autoCount, pend>>

\* doc.data() with id = doc.id
WithId(id, data) == [k \in DOMAIN data \cup {"id"} |-> IF k = "id" THEN id ELSE data[k]]

\* ref.get() answers; getCollection returns the documents as objects.
Fetch ==
    LET found == QueryGet(qref)
    IN  /\ qpc = "fetching"
        /\ ret' = Outcome("getCollection", qopts, "ok", trips \o <<"query">>,
                          [query |-> qref,
                           returnArray |-> [i \in 1..Len(found) |->
                                              WithId(found[i].id, docs[found[i].id])]])
        /\ qpc' = "idle"
        /\ qopts' = NoOptions
        /\ qref' = CollectionRef
        /\ trips' = <<>>
        /\ UNCHANGED <<phase, types, isSingleType, docs, autoCount, pend>>

-----------------------------------------------------------------------------
(* The instance before and after construction.                             *)

Empty == [x \in {} |-> NoProps]

\* The client makes no scripted call.
NoCall == [op |-> "none", arg |-> NoProps]

Fresh ==
    /\ autoCount = 0
    /\ pend = [c \in Callers |-> Idle]
    /\ ret = None
    /\ qpc = "idle"
    /\ qopts = NoOptions
    /\ qref = CollectionRef
    /\ trips = <<>>

\* The instance `new Collection(options, ts, name)` yields, over the
\* collection d.
Constructed(ts, d) ==
    /\ phase = "ready"
    /\ types = ts
    /\ isSingleType = SingleOf(ts)
    /\ docs = d
    /\ Fresh

Stored ==
    [x \in Ids |-> IF x = "a" THEN [k \in {"name"} |-> "x"]
                   ELSE [k \in {"name"} |-> "x"] @@ [k \in {"age"} |-> 7]]

Stores == {Stored, Restrict(Stored, {"a"}), Empty}

ValidTypeLists == {ts \in TypeLists : validate(ts, SingleOf(ts)) = "ok"}

-----------------------------------------------------------------------------
(* Spec: the constructor and every method, on few inputs, in any order.    *)

FewRecords == {r \in Records : r.id \in {"a", NoId} /\ r.data = [k \in {"name"} |-> "x"]}

FewPayloads ==
    {Obj([k \in {"name"} |-> "y"] @@ [k \in {"type"} |-> foo], NoProps),
     Obj([k \in {"bogus"} |-> "y"], NoProps)}

FewOptions ==
    {NoOptions, STANDARD,
     Options(Where(<<>>, "unset", Paging(AtId("a"), 2)), NoOrder, NoPaging),
     Options(Where(<<>>, "unset", Paging(Null, 2)), Order("age", "asc", Paging(Null, 2)),
             NoPaging)}

Init ==
    /\ phase = "new"
    /\ types = <<>>
    /\ isSingleType = FALSE
    /\ docs = Empty
    /\ Fresh
    /\ call = NoCall

Next ==
    /\ \/ \E ts \in TypeLists : Construct(ts)
       \/ \E c \in Callers, object \in FewRecords : AddSingleGet(c, object)
       \/ \E c \in Callers : AddSingleSet(c)
       \/ \E object \in FewRecords : AddSingleAdd(object)
       \/ \E n \in {1, MaxBatch + 1} : addMany(Batch(<<>>, n))
       \/ \E p \in FewPayloads : updateSingle("a", p)
       \/ \E p \in FewPayloads : updateMany(<<[id |-> "a", data |-> p]>>)
       \/ deleteSingle("a")
       \/ getSingle("a")
       \/ \E options \in FewOptions : getCollection(options)
       \/ ResolveCursor
       \/ Fetch
    /\ UNCHANGED call

Spec == Init /\ [][Next]_vars

-----------------------------------------------------------------------------
(* SpecCreate: addSingle, deleteSingle and getSingle in any order, two      *)
(* calls of addSingle(object, true) at a time.                             *)

InitCreate == Constructed(<<Plain>>, Empty) /\ call = NoCall

NextCreate ==
    /\ \/ \E c \in Callers, object \in Records : AddSingleGet(c, object)
       \/ \E c \in Callers : AddSingleSet(c)
       \/ \E object \in Records : AddSingleAdd(object)
       \/ \E id \in Ids \cup DOMAIN docs : deleteSingle(id)
       \/ \E id \in Ids : getSingle(id)
    /\ UNCHANGED call

SpecCreate == InitCreate /\ [][NextCreate]_vars

-----------------------------------------------------------------------------
(* SpecBatch: one call of addMany, for batches around the ceiling and       *)
(* several contents of the store.                                          *)

BatchCalls ==
    {[op |-> "addMany", arg |-> Batch(x[1], x[2])] :
        x \in {y \in SeqUpTo(Records, MaxHead) \X BatchSizes : Len(y[1]) <= y[2]}}

InitBatch ==
    /\ \E d \in Stores : Constructed(<<Plain>>, d)
    /\ call \in BatchCalls

NextBatch == call.op = "addMany" /\ addMany(call.arg) /\ call' = NoCall

SpecBatch == InitBatch /\ [][NextBatch]_vars

-----------------------------------------------------------------------------
(* SpecUpdate: one call of updateSingle or updateMany, for every valid     *)
(* list of types, every partial object and several contents of the store.  *)

\* The partial objects of the lists handed to updateMany.
ManyPayloads == {p \in Payloads : /\ p.proto = NoProps
                                  /\ "bogus" \notin DOMAIN p.own
                                  /\ "name" \in DOMAIN p.own => p.own["name"] = "y"
                                  /\ "age" \in DOMAIN p.own => "name" \in DOMAIN p.own
                                  /\ "type" \in DOMAIN p.own => p.own["type"] \in {foo, <<"q">>}}

UpdateCalls ==
    {[op |-> "updateSingle", arg |-> [id |-> id, partialObject |-> p]] :
        id \in Ids, p \in Payloads}
    \cup {[op |-> "updateMany", arg |-> l] :
             l \in SeqUpTo([id : Ids, data : ManyPayloads], MaxUpdates)}

InitUpdate ==
    /\ \E ts \in ValidTypeLists, d \in Stores : Constructed(ts, d)
    /\ call \in UpdateCalls

NextUpdate ==
    /\ \/ call.op = "updateSingle" /\ updateSingle(call.arg.id, call.arg.partialObject)
       \/ call.op = "updateMany" /\ updateMany(call.arg)
    /\ call' = NoCall

SpecUpdate == InitUpdate /\ [][NextUpdate]_vars

-----------------------------------------------------------------------------
(* SpecQuery: one call of getCollection, for every options value of the    *)
(* pool, a deleteSingle interleaving with it.                              *)

MaxClauses == 2

Seeded ==
    [x \in {"a", "b", "c"} |->
        CASE x = "a" -> [k \in {"age"} |-> 20]
          [] x = "b" -> [k \in {"age"} |-> 70] @@ [k \in {"name"} |-> "x"]
          [] x = "c" -> [k \in {"name"} |-> "y"]]

Clauses == {[field |-> "age", operation |-> ">=", value |-> 18],
            [field |-> "age", operation |-> "<", value |-> 65]}

WherePool ==
    {NoWhere} \cup
    {Where(cs, op, p) :
        cs \in SeqUpTo(Clauses, MaxClauses), op \in {"unset", "and", "or"},
        p \in {NoPaging} \cup {Paging(sa, 2) : sa \in {Null, AtId("a"), AtId("zz"), AtId("")}}}

OrderPool ==
    {NoOrder} \cup
    {Order("age", dir, p) :
        dir \in {"asc", "desc"},
        p \in {NoPaging} \cup {Paging(sa, 2) : sa \in {Null, AtValue(20), AtValue(0)}}}

PagingPool ==
    {NoPaging} \cup {Paging(sa, n) : sa \in {Null, AtId("a"), AtId("zz"), AtId("")}, n \in {1, 2}}

OptionsPool ==
    {NoOptions} \cup {Options(w, o, p) : w \in WherePool, o \in OrderPool, p \in PagingPool}

InitQuery ==
    /\ Constructed(<<Plain>>, Seeded)
    /\ call \in {[op |-> "getCollection", arg |-> options] : options \in OptionsPool}

NextQuery ==
    \/ call.op = "getCollection" /\ getCollection(call.arg) /\ call' = NoCall
    \/ ResolveCursor /\ UNCHANGED call
    \/ Fetch /\ UNCHANGED call
    \/ deleteSingle("a") /\ UNCHANGED call

SpecQuery == InitQuery /\ [][NextQuery]_vars

-----------------------------------------------------------------------------
(* Properties.                                                             *)

\* What a finished call of addSingle(object, true) may have answered.
C1_Answer ==
    (ret.op = "addSingle" /\ ret.arg.hasID) =>
        /\ Falsy(ret.arg.object.id) => ret.res = "IdRequired" /\ ret.io = <<>>
        /\ ret.res = "IdRequired" => Falsy(ret.arg.object.id)
        /\ ret.res = "Conflict" => ret.io = <<"get">> /\ ret.arg.object.id \in DOMAIN docs
        /\ ret.res \in {"IdRequired", "Conflict", "ok"}

\* A call of addSingle(object, true) goes on to its write only for an id
\* that names no stored document, and a call that fails writes nothing.
C1_Step ==
    /\ \A c \in Callers :
          (pend'[c].busy /\ ~pend[c].busy) =>
              /\ ~Falsy(pend'[c].object.id)
              /\ pend'[c].object.id \notin DOMAIN docs
    /\ ret'.res \in {"IdRequired", "Conflict"} => docs' = docs /\ autoCount' = autoCount

\* C1: addSingle with hasID = true fails with the conflict error for every
\* record whose id names a stored document, leaving the store as it was and
\* issuing no write; a record without an id fails with the id-required error
\* before any read or write of the store.
C1_ConflictLeavesStore == []C1_Answer /\ [][C1_Step]_vars

\* A call of addSingle has just failed with the conflict error for a stored id.
C1_Witness ==
    /\ ret.op = "addSingle"
    /\ ret.res = "Conflict"
    /\ ret.arg.object.id \in DOMAIN docs
    /\ docs[ret.arg.object.id] # ret.arg.object.data

\* C2: the existence check and the write of addSingle are two round trips
\* with nothing around them: whatever has happened to the document since the
\* check, a call that passed the check writes its record and returns it
\* without a conflict.  (C2_Witness is the state in which two calls for the
\* same absent id have both passed the check and neither has written.)
C2_WriteAfterCheckSucceeds ==
    [][\A c \in Callers :
          (pend[c].busy /\ ~pend'[c].busy) =>
              /\ ret' = Outcome("addSingle", [object |-> pend[c].object, hasID |-> TRUE],
                                "ok", <<"get", "set">>, pend[c].object)
              /\ pend[c].object.id \in DOMAIN docs'
              /\ docs'[pend[c].object.id] = pend[c].object.data]_vars

\* Two calls for the same id, absent from the store, have both passed the
\* existence check, with different records to write.
C2_Witness ==
    \E c1, c2 \in Callers :
        /\ c1 # c2
        /\ pend[c1].busy /\ pend[c2].busy
        /\ pend[c1].object.id = pend[c2].object.id
        /\ pend[c1].object.data # pend[c2].object.data
        /\ pend[c1].object.id \notin DOMAIN docs

\* The fields a partial object hands on, said without the code: those of
\* its own properties that the type declares, `type` left out.
Allowed(partialObject, t) ==
    {f \in DOMAIN partialObject.own : f # "type" /\ f \in t.fields}

\* The document data after the update u, said without the code.
Merged(data, u) ==
    [f \in DOMAIN data \cup DOMAIN u |-> IF f \in DOMAIN u THEN u[f] ELSE data[f]]

\* The collection d with every update of the list l applied: each field of
\* each document holds what the last entry of l that names the document and
\* hands the field on gives it.
AllApplied(d, l) ==
    LET proj(i) == assembleUpdateObject(l[i].data).obj
        sets(x, f) == {i \in 1..Len(l) : l[i].id = x /\ f \in DOMAIN proj(i)}
        last(x, f) == CHOOSE i \in sets(x, f) : \A j \in sets(x, f) : j <= i
    IN  [x \in DOMAIN d |->
            [f \in DOMAIN d[x] \cup {g \in {"name", "age", "bogus", "type"} : sets(x, g) # {}} |->
                IF sets(x, f) # {} THEN proj(last(x, f))[f] ELSE d[x][f]]]

\* C3: updateMany is all or nothing: the call leaves every listed document
\* with its projected update applied, or it leaves the store as it was; it
\* leaves the store as it was whenever one partial object has no update
\* type or one target is refused by the store.
C3_AllOrNothing ==
    [][ret'.op = "updateMany" =>
          LET l == ret'.arg
              broken == \/ \E i \in 1..Len(l) : ~assembleUpdateObject(l[i].data).ok
                        \/ \E i \in 1..Len(l) : l[i].id \notin DOMAIN docs
          IN  /\ docs' = docs \/ docs' = AllApplied(docs, l)
              /\ ret'.res = "ok" => docs' = AllApplied(docs, l)
              /\ ret'.res # "ok" => docs' = docs
              /\ broken => ret'.res # "ok"]_vars

\* updateMany was refused by the store for a later target, after a target
\* that exists and whose update differs from what is stored.
C3_Witness ==
    /\ ret.op = "updateMany"
    /\ ret.res = "NotFound"
    /\ Len(ret.arg) >= 2
    /\ ret.arg[1].id \in DOMAIN docs
    /\ ret.arg[Len(ret.arg)].id \notin DOMAIN docs
    /\ "name" \in DOMAIN assembleUpdateObject(ret.arg[1].data).obj
    /\ docs[ret.arg[1].id]["name"] # ret.arg[1].data.own["name"]

\* C6: the projected object holds a field exactly if the field is an own
\* property of the partial object, is not `type`, and is declared by the
\* update type, with the partial object's value; updateSingle returns that
\* object and sends it to the store.
C6_Projection ==
    [][(ret'.op = "updateSingle" /\ ret'.res = "ok") =>
          LET partialObject == ret'.arg.partialObject
              t == types[UpdateType(partialObject)]
          IN  /\ DOMAIN ret'.value = Allowed(partialObject, t)
              /\ \A f \in DOMAIN ret'.value : ret'.value[f] = partialObject.own[f]
              /\ ret'.io = <<"update">>
              /\ docs' = [docs EXCEPT ![ret'.arg.id] = Merged(@, ret'.value)]]_vars

\* The example of the specification: the type {name, age}, the partial
\* object {name: "x", age: 5, bogus: "y", type: "foo"}, projected to
\* {name: "x", age: 5} and stored.
C6_Witness ==
    /\ types = <<Plain>>
    /\ ret.op = "updateSingle"
    /\ ret.res = "ok"
    /\ ret.arg.partialObject.own =
          [k \in {"name"} |-> "x"] @@ [k \in {"age"} |-> 5] @@ [k \in {"bogus"} |-> "y"]
          @@ [k \in {"type"} |-> foo]
    /\ ret.value = [k \in {"name"} |-> "x"] @@ [k \in {"age"} |-> 5]
    /\ docs[ret.arg.id] = ret.value

\* Whether the partial object carries a `type` that is the lower-cased name
\* of one of the types.
TypeNamed(partialObject) ==
    /\ In("type", partialObject)
    /\ \E i \in 1..Len(types) : toLocaleLowerCase(types[i].name) = Get(partialObject, "type")

\* Whether it carries a `type` that is the name of one of the types up to case.
TypeNamedAnyCase(partialObject) ==
    /\ In("type", partialObject)
    /\ \E i \in 1..Len(types) :
          toLocaleLowerCase(types[i].name) = toLocaleLowerCase(Get(partialObject, "type"))

\* The first type whose lower-cased name is the partial object's `type`.
FirstNamed(partialObject) ==
    types[CHOOSE i \in 1..Len(types) :
            /\ toLocaleLowerCase(types[i].name) = Get(partialObject, "type")
            /\ \A j \in 1..(i - 1) : toLocaleLowerCase(types[j].name) # Get(partialObject, "type")]

\* C10, as amended: with one type, that type is used whatever `type` the
\* partial object carries; with several, the partial object resolves to the
\* first type whose lower-cased name equals its `type` exactly, and a partial
\* object without `type`, or with a `type` that is no type's lower-cased
\* name, fails with the shape-resolution error before any round trip.
C10_ExactLowerCase ==
    [][ret'.op = "updateSingle" =>
          LET partialObject == ret'.arg.partialObject
          IN  /\ isSingleType =>
                    /\ ret'.res # "ShapeResolution"
                    /\ ret'.res = "ok" => DOMAIN ret'.value = Allowed(partialObject, types[1])
              /\ ~isSingleType =>
                    /\ ret'.res = "ShapeResolution" <=> ~TypeNamed(partialObject)
                    /\ ret'.res = "ok" =>
                          DOMAIN ret'.value = Allowed(partialObject, FirstNamed(partialObject))
              /\ ret'.res = "ShapeResolution" => ret'.io = <<>> /\ docs' = docs]_vars

\* With several types, a partial object whose `type` is "foo" was resolved
\* to the type Foo and its update applied.
C10_Witness ==
    /\ ~isSingleType
    /\ ret.op = "updateSingle"
    /\ ret.res = "ok"
    /\ Get(ret.arg.partialObject, "type") = foo
    /\ "age" \in DOMAIN ret.value

\* C10, as claimed: with several types, a partial object resolves whenever
\* its `type` equals the name of a type up to case.
C10_CaseInsensitive ==
    (ret.op = "updateSingle" /\ ~isSingleType /\ TypeNamedAnyCase(ret.arg.partialObject))
        => ret.res # "ShapeResolution"

\* C7: addMany accepts a batch of at most 500 records, 500 included, and
\* enqueues one write per record; it refuses a batch of more than 500 with
\* the batch-too-large error and writes nothing.
C7_BatchCeiling ==
    [][ret'.op = "addMany" =>
          LET objects == ret'.arg
              length == Length(objects, 1)
          IN  /\ length <= 500 =>
                    /\ ret'.res = "ok"
                    /\ ret'.value.enqueued = length
                    /\ autoCount' - autoCount = Generated(objects, 1)
                    /\ Cardinality(DOMAIN docs' \ DOMAIN docs) >= Generated(objects, 1)
                    /\ \A i \in 1..Len(objects) :
                          ~Falsy(objects[i].object.id) => objects[i].object.id \in DOMAIN docs'
              /\ length > 500 =>
                    /\ ret'.res = "BatchTooLarge"
                    /\ ret'.io = <<>>
                    /\ docs' = docs
                    /\ autoCount' = autoCount]_vars

\* A batch of exactly 500 records was accepted, one of them without an id.
C7_Witness ==
    /\ ret.op = "addMany"
    /\ ret.res = "ok"
    /\ ret.value.enqueued = 500
    /\ Generated(ret.arg, 1) = 1
    /\ "a" \in DOMAIN docs

\* What the constructor has decided, once it has run.
C8_Validated ==
    phase # "new" =>
        /\ Len(types) = 0 => phase = "failed"
        /\ (Len(types) >= 2
              /\ \E i \in 1..Len(types) : "type" \notin types[i].fields \cup types[i].inherited)
           => phase = "failed"
        /\ Len(types) = 1 => phase = "ready"
        /\ isSingleType <=> Len(types) = 1

\* C8: the constructor refuses an empty list of types, and a list of two or
\* more of which one lacks `type`; it never refuses a list of one for
\* lacking `type`; the mode is single exactly for a list of one, and no
\* method changes the mode or the types afterwards.
C8_ShapesAndMode ==
    /\ []C8_Validated
    /\ [][phase = "ready" =>
            phase' = "ready" /\ isSingleType' = isSingleType /\ types' = types]_vars

\* An instance of one type without `type`, in single mode, after a method
\* that reads the mode has run.
C8_Witness ==
    /\ phase = "ready"
    /\ Len(types) = 1
    /\ "type" \notin types[1].fields \cup types[1].inherited
    /\ isSingleType
    /\ ret.op = "updateSingle"
    /\ ret.res = "ok"

-----------------------------------------------------------------------------

\* The options carry whereOptions and orderOptions.
BothGiven(options) == options.given /\ options.whereOptions.set /\ options.orderOptions.set

\* C4: with whereOptions and orderOptions both given, getCollection fails
\* with the configuration error, whatever else the options carry, and before
\* any round trip to the store.
C4_WhereAndOrderRefused ==
    /\ (ret.op = "getCollection" /\ BothGiven(ret.arg)) =>
          ret.res = "WhereAndOrder" /\ ret.io = <<>>
    /\ qpc # "idle" => ~BothGiven(qopts)

\* The call was refused for options that carry paging options of all three
\* kinds and a startAfter besides.
C4_Witness ==
    /\ ret.op = "getCollection"
    /\ ret.res = "WhereAndOrder"
    /\ ret.arg.pagingOptions.set
    /\ ret.arg.whereOptions.pagingOptions.set
    /\ Truthy(ret.arg.whereOptions.pagingOptions.startAfter)
    /\ ret.arg.orderOptions.pagingOptions.set

\* The caller gave none of whereOptions, orderOptions, pagingOptions.
NothingGiven(options) ==
    \/ ~options.given
    \/ ~options.whereOptions.set /\ ~options.orderOptions.set /\ ~options.pagingOptions.set

\* C5, as claimed: without any options, the options value itself absent
\* included, assembly does not fail and the query orders by document id
\* ascending with limit 10.
C5_DefaultFallback ==
    /\ (ret.op = "getCollection" /\ NothingGiven(ret.arg)) =>
          /\ ret.res = "ok"
          /\ ret.value.query.order = <<[field |-> DocumentId, direction |-> "asc"]>>
          /\ ret.value.query.limit = 10
    /\ (qpc # "idle" /\ NothingGiven(qopts)) =>
          /\ qref.order = <<[field |-> DocumentId, direction |-> "asc"]>>
          /\ qref.limit = 10

\* The options select the where branch / the bare paging branch.
WhereMode(options) == options.given /\ options.whereOptions.set /\ ~options.orderOptions.set
PagingMode(options) ==
    /\ options.given /\ ~options.whereOptions.set /\ ~options.orderOptions.set
    /\ options.pagingOptions.set

====
